---- MODULE Spec2Model ----
(***************************************************************************)
(* RealLeads.ai command pipeline: the orchestrator (LLM call, response     *)
(* parser, one retry) and the executor (sequential action batch, parameter *)
(* validation, lead handlers, chaining of get_leads into update_lead).     *)
(*                                                                         *)
(* Encoding of JavaScript values:                                          *)
(*   - an object is a TLA+ record whose DOMAIN is the set of keys present  *)
(*     (an absent key is absent from the DOMAIN);                          *)
(*   - a JSON number given where a string is expected is the token NumTok; *)
(*   - a SQL NULL in a text column is NullTxt; a NULL budget_max is an     *)
(*     absent key of the row.                                              *)
(***************************************************************************)
EXTENDS Integers, Sequences, FiniteSets, TLC

VARIABLES
    \* ---- orchestrate() -------------------------------------------------
    opc,          \* position of the current orchestrate run
    octx,         \* context.agentId of the run ("" = empty, Missing = absent)
    retryCount,   \* local retryCount of orchestrate
    llmCalls,     \* outcomes of the callOrchestrator calls of this run, in order
    oresult,      \* value returned by orchestrate (NoResponse until it returns)
    \* ---- persistence ---------------------------------------------------
    leads,        \* rows of table leads, in insertion order
    pending_messages, \* rows of table pending_messages
    sent,         \* messages handed to a message-sender collaborator
    \* ---- executeActions() ----------------------------------------------
    pc,           \* position of the current executeActions run
    ctx,          \* context.agentId of the run
    submitted,    \* actions.length of the submitted list
    actions,      \* the actions taken from the list so far (after chaining)
    results,      \* local results[]
    allSucceeded, \* local allSucceeded
    trail,        \* per action: what was submitted and what the run did with
                  \* it (observation only)
    \* ---- POST /command --------------------------------------------------
    cmd,          \* position of the current request in the route handler
    reqInput,     \* req.body.input of the current request
    \* ---- concurrent runs of updateLeadAction ------------------------------
    upd,          \* per run: its position and its locals
    audit_log     \* rows of table audit_log written by these runs, in order

orchVars == <<opc, octx, retryCount, llmCalls, oresult>>
storeVars == <<leads, pending_messages, sent>>
execVars == <<pc, ctx, submitted, actions, results, allSucceeded, trail>>
concVars == <<upd, audit_log>>
vars == <<opc, octx, retryCount, llmCalls, oresult, leads, pending_messages, sent,
          pc, ctx, submitted, actions, results, allSucceeded, trail, cmd,
          reqInput, upd, audit_log>>

\* ---- bounds of the model ------------------------------------------------
MaxActions == 2     \* longest action list submitted to executeActions
MaxLeads == 2       \* most rows the leads table holds under Spec
MaxRows == 1        \* most rows the leads table holds under LeadSpec
MaxAudit == 2       \* most runs of updateLeadAction started under ConcSpec
ChainLength == 3    \* length of the action lists submitted under ChainSpec

\* ---- value encodings -----------------------------------------------------
Missing == "<missing>"
NumTok == "<number 123>"
NullTxt == "<null>"
NoResponse == [mode |-> "<none>"]
NoRow == [id |-> "<no row>"]

Has(obj, key) == key \in DOMAIN obj

\* { ...p, [key]: v }
With(p, key, v) == [k \in DOMAIN p \cup {key} |-> IF k = key THEN v ELSE p[k]]

\* how many elements of the array s equal x
RECURSIVE SeqCount(_, _)
SeqCount(s, x) ==
    IF s = <<>> THEN 0
    ELSE (IF Head(s) = x THEN 1 ELSE 0) + SeqCount(Tail(s), x)

\* Array.prototype.includes
Includes(s, x) == \E k \in 1..Len(s) : s[k] = x

\* Array.prototype.filter(e => e !== x)
Without(s, x) == SelectSeq(s, LAMBDA e : e # x)

Reverse(s) == [k \in 1..Len(s) |-> s[Len(s) + 1 - k]]

Take(s, k) == IF Len(s) <= k THEN s ELSE SubSeq(s, 1, k)

\* =========================================================================
\* Response parser
\* =========================================================================

ActionTypes ==
    {"create_lead", "get_leads", "update_lead", "get_communications",
     "draft_initial_followup", "create_pending_message", "send_sms",
     "send_whatsapp", "send_email", "ingest_content",
     "summarize_content_for_segments", "stage_campaign_from_content"}

RenderValues == {"table", "cards", "graph", "notice"}

\* an action schema with type: z.string()
ActionOfAnyType(a) ==
    /\ Has(a, "type")
    /\ Has(a, "params")
    /\ (Has(a, "ui") => (Has(a.ui, "render") => a.ui.render \in RenderValues))

\* ActionSchema: type in the enum, params a record, ui optional
ActionSchemaOk(a) ==
    /\ Has(a, "type") /\ a.type \in ActionTypes
    /\ Has(a, "params")
    /\ (Has(a, "ui") => (Has(a.ui, "render") => a.ui.render \in RenderValues))

\* the clarification schema with actions: z.array(ActionSchema).optional()
ClarificationAllowsActions(body) ==
    /\ Has(body, "explanation")
    /\ Has(body, "missing_fields")
    /\ Has(body, "follow_up_question")

\* ClarificationResponseSchema
ClarificationSchemaOk(body) ==
    /\ Has(body, "explanation")
    /\ Has(body, "missing_fields")
    /\ Has(body, "follow_up_question")
    /\ (Has(body, "actions") => body.actions = <<>>)

\* the execute schema without .min(1) on actions
ExecuteAllowsNoAction(body) ==
    /\ Has(body, "explanation")
    /\ Has(body, "actions")
    /\ \A k \in 1..Len(body.actions) : ActionSchemaOk(body.actions[k])
    /\ Has(body, "ui")
    /\ Has(body.ui, "render") /\ body.ui.render \in RenderValues
    /\ Has(body.ui, "summary")

\* ExecuteResponseSchema
ExecuteSchemaOk(body) ==
    /\ Has(body, "explanation")
    /\ Has(body, "actions")
    /\ Len(body.actions) >= 1
    /\ \A k \in 1..Len(body.actions) : ActionSchemaOk(body.actions[k])
    /\ Has(body, "ui")
    /\ Has(body.ui, "render") /\ body.ui.render \in RenderValues
    /\ Has(body.ui, "summary")

\* z.discriminatedUnion('mode', ...)
OrchestratorResponseSchemaOk(body) ==
    /\ Has(body, "mode")
    /\ \/ body.mode = "clarification_needed" /\ ClarificationSchemaOk(body)
       \/ body.mode = "execute" /\ ExecuteSchemaOk(body)

\* the value zod returns: unknown keys stripped, actions defaulted to []
Validated(body) ==
    IF body.mode = "clarification_needed"
    THEN [mode |-> body.mode, explanation |-> body.explanation,
          missing_fields |-> body.missing_fields,
          follow_up_question |-> body.follow_up_question,
          actions |-> <<>>]
    ELSE [mode |-> body.mode, explanation |-> body.explanation,
          actions |-> body.actions, ui |-> body.ui]

\* Does JSON.parse accept the text left after the fence stripping? A reply is
\* [fence, json, body]: fence is how the text is wrapped, json whether the text
\* inside the wrapper is well-formed JSON. "```json" and a bare "```" are
\* stripped; "```JSON" matches only the bare-fence branch, which leaves the
\* word JSON in front of the text; "prose" is text around the JSON.
JsonParses(reply) ==
    /\ reply.json
    /\ reply.fence \in {"none", "json", "bare"}

\* parseOrchestratorResponse: [ok, value, message]. An error message is the
\* sequence of its words.
parseOrchestratorResponse(reply) ==
    IF ~JsonParses(reply)
    THEN [ok |-> FALSE, value |-> NoResponse,
          message |-> <<"Failed", "to", "parse", "orchestrator", "response",
                        "as", "JSON">>]
    ELSE IF ~OrchestratorResponseSchemaOk(reply.body)
    THEN [ok |-> FALSE, value |-> NoResponse,
          message |-> <<"Orchestrator", "response", "validation", "failed">>]
    ELSE [ok |-> TRUE, value |-> Validated(reply.body), message |-> <<>>]

\* =========================================================================
\* Orchestrator
\* =========================================================================

maxRetries == 1

\* orchestrate without its context check
ContextUnchecked(agentId) == TRUE

\* if (!context.agentId) throw
ContextValid(agentId) == agentId # Missing /\ agentId # ""

\* errorMessage.includes('parse') || .includes('validation') || .includes('JSON')
LooksLikeFormatError(message) ==
    \E k \in 1..Len(message) : message[k] \in {"parse", "validation", "JSON"}

\* callOrchestrator: the provider's error, wrapped
WrapProviderError(message) ==
    <<"Error", "calling", "OpenAI", "Orchestrator:">> \o message

\* ---- what the LLM collaborator can answer --------------------------------
OneAction == [type |-> "create_lead", params |-> [first_name |-> "Sarah"]]
UiOk == [render |-> "table", summary |-> "s"]

ReplyBodies ==
    { [mode |-> "execute", explanation |-> "e", actions |-> <<OneAction>>, ui |-> UiOk],
      [mode |-> "execute", explanation |-> "e", actions |-> <<>>, ui |-> UiOk],
      [mode |-> "execute", explanation |-> "e", actions |-> <<OneAction>>],
      [mode |-> "execute", explanation |-> "e",
       actions |-> <<[type |-> "delete_lead", params |-> [first_name |-> "Sarah"]]>>,
       ui |-> UiOk],
      [mode |-> "execute", explanation |-> "e", actions |-> <<OneAction>>,
       ui |-> [render |-> "chart", summary |-> "s"]],
      [mode |-> "clarification_needed", explanation |-> "e",
       missing_fields |-> <<"email">>, follow_up_question |-> "q"],
      [mode |-> "clarification_needed", explanation |-> "e",
       missing_fields |-> <<>>, follow_up_question |-> ""],
      [mode |-> "clarification_needed", explanation |-> "e",
       missing_fields |-> <<>>, follow_up_question |-> "q"],
      [mode |-> "clarification_needed", explanation |-> "e",
       missing_fields |-> <<"email">>, follow_up_question |-> ""],
      [mode |-> "clarification_needed", explanation |-> "e",
       missing_fields |-> <<"email">>, follow_up_question |-> "q",
       actions |-> <<>>],
      [mode |-> "execute", explanation |-> "e", ui |-> UiOk],
      [mode |-> "execute", explanation |-> "e", actions |-> <<OneAction>>,
       ui |-> [summary |-> "s"]],
      [mode |-> "clarification_needed", explanation |-> "e",
       missing_fields |-> <<"email">>, follow_up_question |-> "q",
       actions |-> <<OneAction>>],
      [mode |-> "execute", explanation |-> "e",
       actions |-> <<[type |-> "create_lead",
                      params |-> [first_name |-> "Sarah",
                                  email |-> "sarah@example.com",
                                  property_address |-> "1 Main St",
                                  budget_max |-> 3000001]]>>,
       ui |-> UiOk],
      [mode |-> "execute", explanation |-> "e",
       actions |-> <<[type |-> "get_leads", params |-> [limit |-> 10]],
                     [type |-> "update_lead",
                      params |-> [lead_id |-> "{{lead_id}}",
                                  budget_max |-> 3000000]]>>,
       ui |-> UiOk],
      [mode |-> "execute", explanation |-> "e",
       actions |-> <<[type |-> "send_sms",
                      params |-> [lead_id |-> "L1", message_body |-> "hello"]],
                     [type |-> "delete_lead", params |-> [lead_id |-> "L1"]]>>,
       ui |-> UiOk],
      [mode |-> "chat", explanation |-> "e"],
      [explanation |-> "e"] }

Replies ==
    {[fence |-> "none", json |-> TRUE, body |-> b] : b \in ReplyBodies}
    \cup {[fence |-> f, json |-> TRUE,
           body |-> [mode |-> "clarification_needed", explanation |-> "e",
                     missing_fields |-> <<"email">>, follow_up_question |-> "q"]] :
          f \in {"json", "bare", "JSON", "prose"}}
    \cup {[fence |-> "none", json |-> FALSE, body |-> [explanation |-> "e"]]}

ProviderMessages ==
    { <<"429", "quota", "exceeded">>,
      <<"Request", "timed", "out">>,
      <<"No", "content", "returned", "from", "OpenAI", "orchestration">>,
      <<"Unexpected", "token", "<", "in", "JSON", "at", "position", "0">> }

LLMOutcomes ==
    {[kind |-> "reply", reply |-> r] : r \in Replies}
    \cup {[kind |-> "error", message |-> m] : m \in ProviderMessages}

\* ---- orchestrate ----------------------------------------------------------
\* entry of orchestrate up to the retry loop
OrchStart ==
    /\ opc \in {"idle", "returned", "failed"}
    /\ \E agentId \in {"A", "", Missing} :
        /\ octx' = agentId
        /\ opc' = IF ContextValid(agentId) THEN "loop" ELSE "failed"
    /\ retryCount' = 0
    /\ llmCalls' = <<>>
    /\ oresult' = NoResponse
    /\ UNCHANGED <<storeVars, execVars, cmd, reqInput, concVars>>

\* what one pass of the try block ends with: [ok, value, message]
Attempt(outcome) ==
    IF outcome.kind = "error"
    THEN [ok |-> FALSE, value |-> NoResponse,
          message |-> WrapProviderError(outcome.message)]
    ELSE parseOrchestratorResponse(outcome.reply)

\* the catch block's test for another pass
ShouldRetry(count, message) ==
    count < maxRetries /\ LooksLikeFormatError(message)

\* one pass of the while loop: call, parse, return or catch
OrchAttempt ==
    /\ opc = "loop"
    /\ retryCount <= maxRetries
    /\ \E outcome \in LLMOutcomes :
        LET a == Attempt(outcome) IN
        /\ llmCalls' = Append(llmCalls, outcome)
        /\ IF a.ok
           THEN /\ opc' = "returned"
                /\ oresult' = a.value
                /\ UNCHANGED retryCount
           ELSE IF ShouldRetry(retryCount, a.message)
           THEN /\ retryCount' = retryCount + 1
                /\ UNCHANGED <<opc, oresult>>
           ELSE /\ opc' = "failed"
                /\ UNCHANGED <<retryCount, oresult>>
    /\ UNCHANGED <<octx, storeVars, execVars, cmd, reqInput, concVars>>

OrchNext == OrchStart \/ OrchAttempt

\* =========================================================================
\* Parameter validators (zod schemas). Keys that no handler reads
\* (last_name, budget_min, source, status, tags, notes, offset, search)
\* are left out of the parameter bags.
\* =========================================================================

IdTable == <<"L1", "L2", "L3", "L4", "L5">>
Uuids == {IdTable[k] : k \in 1..Len(IdTable)}
ValidEmails == {"sarah@example.com"}
Digits == {"0", "1", "2", "3", "4", "5", "6", "7", "8", "9"}
Channels == {"email", "sms", "whatsapp"}

\* z.string()
OptStr(p, key) == Has(p, key) => p[key] # NumTok
\* z.string().min(1)
ReqStr1(p, key) == Has(p, key) /\ p[key] # NumTok /\ p[key] # ""
OptStr1(p, key) == Has(p, key) => (p[key] # NumTok /\ p[key] # "")
\* z.string() in place of z.string().uuid()
ReqAnyString(p, key) == Has(p, key) /\ p[key] # NumTok

\* z.string().uuid()
ReqUuid(p, key) == Has(p, key) /\ p[key] \in Uuids
\* z.number().positive()
OptPositive(p, key) == Has(p, key) => p[key] > 0
\* emailSchema
OptEmail(p, key) == Has(p, key) => p[key] \in ValidEmails

\* phoneSchema: val.replace(/\D/g, '')
DigitsOnly(val) == SelectSeq(val, LAMBDA c : c \in Digits)
\* a formatter that puts the country code in front
FormatPhoneWithCountryCode(d) ==
    <<"+", "1", "-">> \o SubSeq(d, 1, 3) \o <<"-">> \o SubSeq(d, 4, 6) \o <<"-">>
        \o SubSeq(d, 7, 10)
\* phoneSchema: `${val.slice(0,3)}-${val.slice(3,6)}-${val.slice(6,10)}`
FormatPhone(d) == SubSeq(d, 1, 3) \o <<"-">> \o SubSeq(d, 4, 6) \o <<"-">> \o SubSeq(d, 7, 10)
PhoneLength == 10
OptPhone(p, key) == Has(p, key) => Len(DigitsOnly(p[key])) = PhoneLength

\* what z.object(...).parse returns: the schema's keys, phone transformed
ZodOutput(p, keys) ==
    [k \in (DOMAIN p) \cap keys |->
        IF k = "phone" THEN FormatPhone(DigitsOnly(p[k])) ELSE p[k]]

LeadKeys ==
    {"first_name", "email", "phone", "property_address", "neighborhood", "beds",
     "baths", "price_range", "budget_max", "segments"}

LeadFieldsOk(p) ==
    /\ OptEmail(p, "email")
    /\ OptPhone(p, "phone")
    /\ OptStr(p, "property_address")
    /\ OptStr(p, "neighborhood")
    /\ OptPositive(p, "beds")
    /\ OptPositive(p, "baths")
    /\ OptStr(p, "price_range")
    /\ OptPositive(p, "budget_max")

CreateLeadSchemaOk(p) == ReqStr1(p, "first_name") /\ LeadFieldsOk(p)
UpdateLeadSchemaOk(p) ==
    ReqUuid(p, "lead_id") /\ OptStr1(p, "first_name") /\ LeadFieldsOk(p)
MaxLimit == 100
GetLeadsSchemaOk(p) ==
    Has(p, "limit") => (p.limit > 0 /\ p.limit <= MaxLimit)
SendSchemaOk(p) == ReqUuid(p, "lead_id") /\ ReqStr1(p, "message_body")
SendEmailSchemaOk(p) ==
    ReqUuid(p, "lead_id") /\ ReqStr1(p, "subject") /\ ReqStr1(p, "body")
CreatePendingMessageSchemaOk(p) ==
    /\ ReqUuid(p, "lead_id")
    /\ Has(p, "channel") /\ p.channel \in Channels
    /\ ReqStr1(p, "message_body")
    /\ Has(p, "requires_approval") /\ p.requires_approval \in BOOLEAN
LeadRefSchemaOk(p) == ReqUuid(p, "lead_id")
ContentSchemaOk(p) == ReqStr1(p, "content")
SummarizeSchemaOk(p) ==
    ReqStr1(p, "content") /\ Has(p, "segments") /\ Len(p.segments) >= 1

SchemaKeys(type) ==
    CASE type = "create_lead" -> LeadKeys
      [] type = "update_lead" -> LeadKeys \cup {"lead_id"}
      [] type = "get_leads" -> {"segments", "limit"}
      [] type \in {"send_sms", "send_whatsapp"} -> {"lead_id", "message_body"}
      [] type = "send_email" -> {"lead_id", "subject", "body"}
      [] type = "create_pending_message" ->
            {"lead_id", "channel", "message_body", "requires_approval"}
      [] type \in {"get_communications", "draft_initial_followup"} -> {"lead_id"}
      [] type = "enrich_property_for_lead" -> {"lead_id", "raw_input"}
      [] type = "summarize_content_for_segments" -> {"content", "segments"}
      [] OTHER -> {"content"}

SchemaOk(type, p) ==
    CASE type = "create_lead" -> CreateLeadSchemaOk(p)
      [] type = "update_lead" -> UpdateLeadSchemaOk(p)
      [] type = "get_leads" -> GetLeadsSchemaOk(p)
      [] type \in {"send_sms", "send_whatsapp"} -> SendSchemaOk(p)
      [] type = "send_email" -> SendEmailSchemaOk(p)
      [] type = "create_pending_message" -> CreatePendingMessageSchemaOk(p)
      [] type \in {"get_communications", "draft_initial_followup"} -> LeadRefSchemaOk(p)
      [] type = "enrich_property_for_lead" ->
            ReqUuid(p, "lead_id") /\ ReqStr1(p, "raw_input")
      [] type = "summarize_content_for_segments" -> SummarizeSchemaOk(p)
      [] OTHER -> ContentSchemaOk(p)

\* the cases of validateActionParams's switch
ValidatorTypes == ActionTypes \cup {"enrich_property_for_lead"}

\* validateActionParams: [ok, value, error]
validateActionParams(type, p) ==
    IF type \notin ValidatorTypes
    THEN [ok |-> FALSE, value |-> p, error |-> "Unknown action type"]
    ELSE IF ~SchemaOk(type, p)
    THEN [ok |-> FALSE, value |-> p, error |-> "Parameter validation failed"]
    ELSE [ok |-> TRUE, value |-> ZodOutput(p, SchemaKeys(type)), error |-> ""]

\* =========================================================================
\* Persistence (table leads). A row is [id, owner_agent_id, segments] plus
\* budget_max when the column is not NULL.
\* =========================================================================

HNW == "High Net Worth"
HNW_THRESHOLD == 3000000
DefaultLimit == 50

\* createLead: INSERT ... RETURNING *
NewRow(input, n) ==
    LET base == [id |-> IdTable[n + 1],
                 owner_agent_id |-> input.owner_agent_id,
                 segments |-> input.segments]
    IN IF Has(input, "budget_max")
       THEN [k \in DOMAIN base \cup {"budget_max"} |->
                IF k = "budget_max" THEN input.budget_max ELSE base[k]]
       ELSE base

\* WHERE id = $1, without the owner
RowMatchesAnyOwner(row, leadId, agentId) == row.id = leadId

\* WHERE id = $1 AND owner_agent_id = $2 (a NULL or absent agent matches no row)
RowMatches(row, leadId, agentId) ==
    row.id = leadId /\ agentId # Missing /\ row.owner_agent_id = agentId

\* getLeadById
getLeadById(table, leadId, agentId) ==
    {k \in 1..Len(table) : RowMatches(table[k], leadId, agentId)}

\* updateLead: SET key = value for every key of updates
UpdatedRow(row, updates) ==
    [k \in DOMAIN row \cup (DOMAIN updates \cap {"budget_max", "segments"}) |->
        IF Has(updates, k) /\ k \in {"budget_max", "segments"}
        THEN updates[k] ELSE row[k]]

updateLead(table, leadId, agentId, updates) ==
    [k \in 1..Len(table) |->
        IF RowMatches(table[k], leadId, agentId)
        THEN UpdatedRow(table[k], updates) ELSE table[k]]

\* segments && $n
Overlaps(a, b) == \E x \in 1..Len(a) : Includes(b, a[x])

\* getLeadsByAgent: WHERE owner_agent_id = $1 [AND segments && $2]
\*                  ORDER BY created_at DESC LIMIT $3
getLeadsByAgent(table, agentId, filters) ==
    LET hit(row) ==
            /\ agentId # Missing
            /\ row.owner_agent_id = agentId
            /\ (Has(filters, "segments") /\ Len(filters.segments) > 0
                    => Overlaps(row.segments, filters.segments))
    IN Take(SelectSeq(Reverse(table), hit), filters.limit)

\* =========================================================================
\* Action handlers. A handler's outcome is
\*   [threw, error, success, data_leads, touched, audit, leads,
\*    pending_messages, sent]
\* threw: the handler threw error; data_leads: the ids of result.leads;
\* touched: the id of the row it inserted or updated ("" when none);
\* audit: the rows it inserted into table audit_log, a table the program
\* only appends to and never reads;
\* leads, pending_messages, sent: the tables and the sender log afterwards.
\* dbOk is whether the database answers the handler's write or query.
\* =========================================================================

Threw(error, touched, table) ==
    [threw |-> TRUE, error |-> error, success |-> FALSE, data_leads |-> <<>>,
     touched |-> touched, audit |-> <<>>, leads |-> table,
     pending_messages |-> pending_messages, sent |-> sent]

Returned(ids, touched, table) ==
    [threw |-> FALSE, error |-> "", success |-> TRUE, data_leads |-> ids,
     touched |-> touched, audit |-> <<>>, leads |-> table,
     pending_messages |-> pending_messages, sent |-> sent]

\* validateRequiredFields of create-lead.ts: TRUE when it does not throw
validateRequiredFields(p) == Has(p, "email") \/ Has(p, "phone")

\* detectSegments with the threshold inclusive
detectSegmentsInclusive(p) ==
    LET segments == IF Has(p, "segments") THEN p.segments ELSE <<>>
    IN IF Has(p, "budget_max") /\ p.budget_max >= HNW_THRESHOLD
          /\ ~Includes(segments, HNW)
       THEN Append(segments, HNW)
       ELSE segments

\* detectSegments
detectSegments(p) ==
    LET segments == IF Has(p, "segments") THEN p.segments ELSE <<>>
    IN IF Has(p, "budget_max") /\ p.budget_max > HNW_THRESHOLD
          /\ ~Includes(segments, HNW)
       THEN Append(segments, HNW)
       ELSE segments

\* logAction: the row inserted into audit_log
AuditEntry(actor, action, details, status) ==
    [actor |-> actor, parsed_action |-> action, details |-> details,
     status |-> status]

\* logLeadCreated
logLeadCreated(agentId, leadId) ==
    AuditEntry(agentId, "create_lead", [lead_id |-> leadId], "success")

\* existingLead[key]: the column's value, null when the column is NULL
Column(row, key) == IF Has(row, key) THEN row[key] ELSE NullTxt

\* updateLeadAction, lines 454-460: changes[key] = {old, new}
Changes(existingLead, updates) ==
    [k \in DOMAIN updates \cap {"budget_max", "segments"} |->
        [old |-> Column(existingLead, k), new |-> updates[k]]]

\* logLeadUpdated
logLeadUpdated(agentId, leadId, changes) ==
    AuditEntry(agentId, "update_lead",
               [lead_id |-> leadId, changes |-> changes], "success")

\* createLeadAction, lines 149-154: the arguments of logLeadCreated name
\* ownerAgentId and newLead, which nothing declares, so evaluating them
\* throws a ReferenceError after the row was inserted
AuditCallThrows == TRUE

createLeadAction(p, agentId, dbOk) ==
    IF ~CreateLeadSchemaOk(p) THEN Threw("ZodError", "", leads)
    ELSE IF ~validateRequiredFields(p)
    THEN Threw("Lead must have at least one contact method", "", leads)
    ELSE IF ~dbOk THEN Threw("database error", "", leads)
    ELSE
        LET owner == IF agentId \in {Missing, ""} THEN NullTxt ELSE agentId
            input == [k \in {"owner_agent_id", "segments"}
                           \cup (DOMAIN p \cap {"budget_max"}) |->
                        CASE k = "owner_agent_id" -> owner
                          [] k = "segments" -> detectSegments(p)
                          [] OTHER -> p[k]]
            table == Append(leads, NewRow(input, Len(leads)))
        IN IF AuditCallThrows
           THEN Threw("ReferenceError: ownerAgentId is not defined",
                      IdTable[Len(table)], table)
           ELSE [Returned(<<>>, IdTable[Len(table)], table) EXCEPT
                    !.audit = <<logLeadCreated(agentId, IdTable[Len(table)])>>]

getLeadsAction(p, agentId, dbOk) ==
    IF ~GetLeadsSchemaOk(p) THEN Threw("ZodError", "", leads)
    ELSE IF ~dbOk THEN Threw("database error", "", leads)
    ELSE
        LET filters == [k \in (DOMAIN p \cap {"segments"}) \cup {"limit"} |->
                          IF k = "limit"
                          THEN (IF Has(p, "limit") THEN p.limit ELSE DefaultLimit)
                          ELSE p[k]]
            rows == getLeadsByAgent(leads, agentId, filters)
        IN Returned([k \in 1..Len(rows) |-> rows[k].id], "", leads)

\* updateLeadAction, lines 413-430: the updates sent to updateLead
AutoTag(updates) ==
    IF ~Has(updates, "budget_max") THEN updates
    ELSE
        LET segments == IF Has(updates, "segments") THEN updates.segments ELSE <<>>
            set(v) == [k \in DOMAIN updates \cup {"segments"} |->
                         IF k = "segments" THEN v ELSE updates[k]]
        IN IF updates.budget_max > HNW_THRESHOLD /\ ~Includes(segments, HNW)
           THEN set(Append(segments, HNW))
           ELSE IF updates.budget_max <= HNW_THRESHOLD /\ Includes(segments, HNW)
           THEN set(Without(segments, HNW))
           ELSE updates

updateLeadAction(p, agentId, dbOk) ==
    IF ~UpdateLeadSchemaOk(p) THEN Threw("ZodError", "", leads)
    ELSE
        LET updates == AutoTag([k \in DOMAIN p \ {"lead_id"} |-> p[k]])
        IN IF ~dbOk THEN Threw("database error", "", leads)
           ELSE IF getLeadById(leads, p.lead_id, agentId) = {}
           THEN Threw("Lead not found or you do not have permission to update it",
                      "", leads)
           ELSE
            LET existingLead ==
                    leads[CHOOSE k \in getLeadById(leads, p.lead_id, agentId) : TRUE]
            IN [Returned(<<>>, p.lead_id,
                         updateLead(leads, p.lead_id, agentId, updates)) EXCEPT
                    !.audit = <<logLeadUpdated(agentId, p.lead_id,
                                               Changes(existingLead, updates))>>]

SendTypes == {"send_sms", "send_whatsapp", "send_email"}

Tagged(table, leadId) ==
    \E k \in 1..Len(table) :
        table[k].id = leadId /\ Includes(table[k].segments, HNW)

\* the send cases wired straight to a sender, without looking at the lead
SendsAtOnce(type, p, agentId) ==
    LET h == Threw("action not yet implemented", "", leads)
    IN IF type \in SendTypes
       THEN [h EXCEPT !.threw = FALSE, !.success = TRUE, !.error = "",
                      !.sent = sent \cup {[lead_id |-> p.lead_id, channel |-> type,
                                           protected |-> Tagged(leads, p.lead_id)]}]
       ELSE h

\* the same cases as stubs that break out of the switch with an empty result
StubReturns(type, p, agentId) == Returned(<<>>, "", leads)

\* the cases of executeSingleAction's switch that only throw
NotImplemented(type, p, agentId) ==
    Threw("action not yet implemented", "", leads)

\* executeSingleAction's switch
Dispatch(type, p, agentId, dbOk) ==
    CASE type = "create_lead" -> createLeadAction(p, agentId, dbOk)
      [] type = "get_leads" -> getLeadsAction(p, agentId, dbOk)
      [] type = "update_lead" -> updateLeadAction(p, agentId, dbOk)
      [] type \in ActionTypes \ {"create_lead", "get_leads", "update_lead"} ->
            NotImplemented(type, p, agentId)
      [] OTHER -> Threw("Unknown action type", "", leads)

\* =========================================================================
\* Executor
\* =========================================================================

\* lead_id.includes('{{') || lead_id.includes('from_'), on the strings the
\* model gives lead_id
PlaceholderTokens == {"{{lead_id}}", "from_previous_action"}
IsPlaceholder(x) == x \in PlaceholderTokens

\* chaining that takes the last lead of the list instead of the first
ChainTakesLast(action, k, res) ==
    IF /\ action.type = "update_lead" /\ k > 1
       /\ res[k - 1].actionType = "get_leads"
       /\ Len(res[k - 1].data_leads) > 0
       /\ (~Has(action.params, "lead_id") \/ action.params.lead_id = ""
            \/ action.params.lead_id \in {"{{lead_id}}", "from_previous_action"})
    THEN [threw |-> FALSE,
          action |-> [type |-> action.type,
                      params |-> [f \in DOMAIN action.params \cup {"lead_id"} |->
                                     IF f = "lead_id"
                                     THEN res[k - 1].data_leads[Len(res[k - 1].data_leads)]
                                     ELSE action.params[f]]]]
    ELSE [threw |-> FALSE, action |-> action]

\* chaining that injects the id whatever lead_id the action carries
ChainOverwritesId(action, k, res) ==
    IF /\ action.type = "update_lead" /\ k > 1
       /\ res[k - 1].actionType = "get_leads"
       /\ Len(res[k - 1].data_leads) > 0
    THEN [threw |-> FALSE,
          action |-> [type |-> action.type,
                      params |-> [f \in DOMAIN action.params \cup {"lead_id"} |->
                                     IF f = "lead_id" THEN res[k - 1].data_leads[1]
                                     ELSE action.params[f]]]]
    ELSE [threw |-> FALSE, action |-> action]

\* executeActions, lines 113-127: [threw, action]. results are 1-based here,
\* so the code's i > 0 is k > 1 and results[i - 1] is res[k - 1].
Chain(action, k, res) ==
    IF /\ action.type = "update_lead" /\ k > 1
       /\ res[k - 1].actionType = "get_leads"
       /\ Len(res[k - 1].data_leads) > 0
    THEN IF ~Has(action.params, "lead_id") \/ action.params.lead_id = ""
            \/ (action.params.lead_id # NumTok /\ IsPlaceholder(action.params.lead_id))
         THEN [threw |-> FALSE,
               action |-> [type |-> action.type,
                           params |-> [f \in DOMAIN action.params \cup {"lead_id"} |->
                                          IF f = "lead_id" THEN res[k - 1].data_leads[1]
                                          ELSE action.params[f]]]]
         ELSE [threw |-> action.params.lead_id = NumTok, action |-> action]
    ELSE [threw |-> FALSE, action |-> action]

\* a catch block that rethrows instead of recording
CatchRethrows(type, error) ==
    [escaped |-> TRUE,
     result |-> [success |-> FALSE, actionType |-> type, data_leads |-> <<>>,
                 error |-> error]]

\* executeActions, lines 135-153: the catch block records a failed result
CatchBlock(type, error) ==
    [escaped |-> FALSE,
     result |-> [success |-> FALSE, actionType |-> type, data_leads |-> <<>>,
                 error |-> error]]

\* a loop that does not await the handler: its write has not landed when the
\* next pass starts
StepWithoutAwait(escaped, action, result, validated, valid, h) ==
    [escaped |-> escaped, action |-> action, result |-> result,
     trail |-> [validated |-> validated, dispatched |-> valid,
                touched |-> h.touched, audit |-> h.audit],
     leads |-> leads, pending_messages |-> h.pending_messages, sent |-> h.sent]

Step(escaped, action, result, validated, valid, h) ==
    [escaped |-> escaped, action |-> action, result |-> result,
     trail |-> [validated |-> validated, dispatched |-> valid,
                touched |-> h.touched, audit |-> h.audit],
     leads |-> h.leads, pending_messages |-> h.pending_messages, sent |-> h.sent]

\* one pass of the for loop of executeActions, executeSingleAction included
Iteration(action, k, res, agentId, dbOk) ==
    LET c == Chain(action, k, res)
        a == c.action
        same == Threw("", "", leads)
    IN IF c.threw
       THEN LET e == CatchBlock(a.type, "TypeError")
            IN Step(e.escaped, a, e.result, FALSE, FALSE, same)
       ELSE
        LET v == validateActionParams(a.type, a.params)
        IN IF ~v.ok
           THEN LET e == CatchBlock(a.type, v.error)
                IN Step(e.escaped, a, e.result, TRUE, FALSE, same)
           ELSE
            LET h == Dispatch(a.type, v.value, agentId, dbOk)
            IN IF h.threw
               THEN LET e == CatchBlock(a.type, h.error)
                    IN Step(e.escaped, a, e.result, TRUE, TRUE, h)
               ELSE Step(FALSE, a,
                         [success |-> h.success, actionType |-> a.type,
                          data_leads |-> h.data_leads, error |-> ""],
                         TRUE, TRUE, h)

\* a loop that breaks at the first failed result
LoopStopsOnFailure(allOk) == allOk

\* the for loop goes on to the next index whatever the results so far
LoopGoesOn(allOk) == TRUE

\* a flag that keeps only the last result's success
LastResultOnly(allOk, result) == result.success

\* allSucceeded after a result was pushed: lines 131-133 and 152
KeepAllSucceeded(allOk, result) == allOk /\ result.success

\* results.filter((r) => r.success).length
successCount(res) == Len(SelectSeq(res, LAMBDA r : r.success))

\* the summary sentence of executeActions, by the numbers it prints
Summary(res, allOk) ==
    IF allOk
    THEN [executed |-> Len(res)]
    ELSE [executed |-> Len(res), succeeded |-> successCount(res),
          failed |-> Len(res) - successCount(res)]

\* the value executeActions returns
ExecutionResult ==
    [success |-> allSucceeded, results |-> results,
     summary |-> Summary(results, allSucceeded)]

\* entry of executeActions
ExecStart(agents, lengths) ==
    /\ pc \in {"idle", "done"}
    /\ \E agentId \in agents, n \in lengths :
        /\ ctx' = agentId
        /\ submitted' = n
    /\ pc' = "running"
    /\ actions' = <<>>
    /\ results' = <<>>
    /\ trail' = <<>>
    /\ allSucceeded' = TRUE
    /\ UNCHANGED <<orchVars, storeVars, cmd, reqInput, concVars>>

\* the next action of the submitted list goes through one pass of the loop
ExecStep(pool, db, cap) ==
    /\ pc = "running"
    /\ Len(actions) < submitted
    /\ LoopGoesOn(allSucceeded)
    /\ \E action \in pool, dbOk \in db :
        /\ action.type = "create_lead" => Len(leads) < cap
        /\ LET it == Iteration(action, Len(actions) + 1, results, ctx, dbOk) IN
            /\ actions' = Append(actions, it.action)
            /\ results' = Append(results, it.result)
            /\ trail' = Append(trail, With(it.trail, "given", action))
            /\ allSucceeded' = KeepAllSucceeded(allSucceeded, it.result)
            /\ leads' = it.leads
            /\ pending_messages' = it.pending_messages
            /\ sent' = it.sent
            /\ pc' = IF it.escaped THEN "thrown" ELSE "running"
    /\ UNCHANGED <<orchVars, ctx, submitted, cmd, reqInput, concVars>>

\* after the loop: executeActions returns {success, results, summary}
ExecFinish ==
    /\ pc = "running"
    /\ Len(actions) = submitted \/ ~LoopGoesOn(allSucceeded)
    /\ pc' = "done"
    /\ UNCHANGED <<orchVars, storeVars, ctx, submitted, actions, results,
                   allSucceeded, trail, cmd, reqInput, concVars>>

\* ---- the action lists the model submits ---------------------------------
\* lead_id, when present, is a string, as UpdateLeadParams declares it.
Act(type, params) == [type |-> type, params |-> params]

Sarah ==
    [first_name |-> "Sarah", email |-> "sarah@example.com",
     property_address |-> "1 Main St", budget_max |-> 3000001]

MsgTo(id) == [lead_id |-> id, message_body |-> "hello"]

BatchPool ==
    { Act("create_lead", Sarah),
      Act("create_lead", [first_name |-> "Sarah", budget_max |-> 3000001]),
      Act("create_lead", [first_name |-> "", email |-> "sarah@example.com"]),
      Act("get_leads", [segments |-> <<HNW>>]),
      Act("get_leads", [limit |-> 0]),
      Act("update_lead", [budget_max |-> 3000000]),
      Act("update_lead", [lead_id |-> "{{lead_id}}", budget_max |-> 3000000]),
      Act("update_lead", [lead_id |-> "from_previous_action", budget_max |-> 3000000]),
      Act("update_lead", [lead_id |-> "L1", budget_max |-> 3000000]),
      Act("update_lead", [lead_id |-> "not-a-uuid", budget_max |-> 3000000]),
      Act("get_communications", [lead_id |-> "L1"]),
      Act("draft_initial_followup", [lead_id |-> "L1"]),
      Act("create_pending_message",
          [lead_id |-> "L1", channel |-> "sms", message_body |-> "hello",
           requires_approval |-> TRUE]),
      Act("send_sms", MsgTo("L1")),
      Act("send_sms", [lead_id |-> "L1", message_body |-> ""]),
      Act("send_whatsapp", MsgTo("L1")),
      Act("send_email", [lead_id |-> "L1", subject |-> "s", body |-> "b"]),
      Act("ingest_content", [content |-> "c"]),
      Act("summarize_content_for_segments", [content |-> "c", segments |-> <<HNW>>]),
      Act("stage_campaign_from_content", [content |-> "c"]),
      Act("enrich_property_for_lead", [lead_id |-> "L1", raw_input |-> "1 Main St"]),
      Act("delete_lead", [lead_id |-> "L1"]) }

Agents == {"A", Missing}

\* the concurrent runs of updateLeadAction and their locals before a run
Procs == {1, 2}
IdleRun ==
    [pc |-> "idle", lead_id |-> "", updates |-> [budget_max |-> 0],
     existingLead |-> NoRow, before |-> NoRow, logged |-> 0]

Init ==
    /\ opc = "idle"
    /\ octx = Missing
    /\ retryCount = 0
    /\ llmCalls = <<>>
    /\ oresult = NoResponse
    /\ leads = <<>>
    /\ pending_messages = {}
    /\ sent = {}
    /\ pc = "idle"
    /\ ctx = Missing
    /\ submitted = 0
    /\ actions = <<>>
    /\ results = <<>>
    /\ allSucceeded = TRUE
    /\ trail = <<>>
    /\ cmd = "idle"
    /\ reqInput = [length |-> 0, trimmed |-> 0]
    /\ upd = [p \in Procs |-> IdleRun]
    /\ audit_log = <<>>

Next ==
    \/ ExecStart(Agents, 0..MaxActions)
    \/ ExecStep(BatchPool, {TRUE}, MaxLeads)
    \/ ExecFinish

\* executeActions on arbitrary action lists
Spec == Init /\ [][Next]_vars

\* ---- single lead actions with every mix of budget_max and segments -------
Investor == "Investor"
RawPhone == <<"(", "5", "5", "5", ")", " ", "1", "2", "3", "-", "4", "5", "6", "7">>

CreatePool ==
    { Act("create_lead", Sarah),
      Act("create_lead", With(Sarah, "segments", <<HNW>>)),
      Act("create_lead", With(Sarah, "segments", <<Investor>>)),
      Act("create_lead", With(Sarah, "segments", <<HNW, HNW>>)),
      Act("create_lead",
          [first_name |-> "Sarah", email |-> "sarah@example.com",
           neighborhood |-> "SOMA", beds |-> 2, baths |-> 2,
           budget_max |-> 3000000, segments |-> <<Investor>>]),
      Act("create_lead",
          [first_name |-> "Sarah", phone |-> RawPhone,
           property_address |-> "1 Main St", budget_max |-> 3000000,
           segments |-> <<HNW>>]),
      Act("create_lead",
          [first_name |-> "Sarah", email |-> "sarah@example.com",
           property_address |-> "1 Main St", price_range |-> "1-2M"]),
      \* one of the four required categories missing
      Act("create_lead",
          [email |-> "sarah@example.com", property_address |-> "1 Main St",
           budget_max |-> 3000001]),
      Act("create_lead",
          [first_name |-> "Sarah", property_address |-> "1 Main St",
           budget_max |-> 3000001]),
      Act("create_lead",
          [first_name |-> "Sarah", email |-> "sarah@example.com",
           budget_max |-> 3000001]),
      Act("create_lead",
          [first_name |-> "Sarah", email |-> "sarah@example.com",
           neighborhood |-> "SOMA", budget_max |-> 3000000]),
      Act("create_lead",
          [first_name |-> "Sarah", email |-> "sarah@example.com",
           property_address |-> "1 Main St"]),
      \* a parameter of the wrong shape
      Act("create_lead", With(Sarah, "budget_max", 0)) }

UpdatePayloads ==
    {[lead_id |-> "L1"]}
    \cup {[lead_id |-> "L1", budget_max |-> b] : b \in {3000000, 3000001}}
    \cup {[lead_id |-> "L1", segments |-> g] :
            g \in {<<>>, <<Investor>>, <<HNW>>, <<Investor, HNW>>}}
    \cup {[lead_id |-> "L1", budget_max |-> b, segments |-> g] :
            b \in {3000000, 3000001},
            g \in {<<>>, <<Investor>>, <<HNW>>, <<Investor, HNW>>, <<HNW, HNW>>}}

FormattedPhone == <<"5", "5", "5", "-", "1", "2", "3", "-", "4", "5", "6", "7">>

\* one action of every other type the validator knows, and phone numbers as
\* typed and as already formatted
OtherPool ==
    { Act("create_lead",
          [first_name |-> "Sarah", phone |-> FormattedPhone,
           property_address |-> "1 Main St", budget_max |-> 3000000]),
      Act("create_lead",
          [first_name |-> "Sarah", phone |-> Tail(RawPhone),
           property_address |-> "1 Main St", budget_max |-> 3000000]),
      Act("update_lead", [lead_id |-> "L1", phone |-> RawPhone]),
      Act("get_leads", [limit |-> 10]),
      Act("get_communications", [lead_id |-> "L1"]),
      Act("draft_initial_followup", [lead_id |-> "L1"]),
      Act("create_pending_message",
          [lead_id |-> "L1", channel |-> "sms", message_body |-> "hello",
           requires_approval |-> TRUE]),
      Act("ingest_content", [content |-> "c"]),
      Act("summarize_content_for_segments", [content |-> "c", segments |-> <<HNW>>]),
      Act("stage_campaign_from_content", [content |-> "c"]),
      Act("enrich_property_for_lead", [lead_id |-> "L1", raw_input |-> "1 Main St"]) }

LeadPool ==
    CreatePool
    \cup {Act("update_lead", p) : p \in UpdatePayloads}
    \cup { Act("get_leads", [segments |-> <<HNW>>]),
           Act("send_sms", MsgTo("L1")),
           Act("send_whatsapp", MsgTo("L1")),
           Act("send_email", [lead_id |-> "L1", subject |-> "s", body |-> "b"]),
           Act("send_sms", MsgTo("L2")) }
    \cup OtherPool

LeadAgents == {"A", "B"}

LeadNext ==
    \/ ExecStart(LeadAgents, {1})
    \/ ExecStep(LeadPool, BOOLEAN, MaxRows)
    \/ ExecFinish

\* executeActions on one lead action at a time, command after command
LeadSpec == Init /\ [][LeadNext]_vars

\* ---- action lists around the chaining step -------------------------------
ChainPool ==
    { Act("create_lead", Sarah),
      Act("get_leads", [limit |-> 10]),
      Act("get_leads", [limit |-> 0]),
      Act("get_leads", [segments |-> <<Investor>>]),
      Act("update_lead", [budget_max |-> 3000000]),
      Act("update_lead", [lead_id |-> "", budget_max |-> 3000000]),
      Act("update_lead", [lead_id |-> "{{lead_id}}", budget_max |-> 3000000]),
      Act("update_lead", [lead_id |-> "from_previous_action", budget_max |-> 3000000]),
      Act("update_lead", [lead_id |-> "L1", budget_max |-> 3000000]),
      Act("update_lead", [lead_id |-> "not-a-uuid", budget_max |-> 3000000]),
      Act("send_sms", MsgTo("L1")) }

ChainNext ==
    \/ ExecStart({"A"}, {ChainLength})
    \/ ExecStep(ChainPool, {TRUE}, MaxLeads)
    \/ ExecFinish

\* executeActions on lists long enough to put an action between a get_leads
\* and an update_lead
ChainSpec == Init /\ [][ChainNext]_vars

\* =========================================================================
\* updateLeadAction step by step: two commands of one agent run it at the
\* same time, and each await gives the other run its turn
\* =========================================================================

ConcAgent == "A"

ConcPayloads ==
    {[lead_id |-> "L1", budget_max |-> b] : b \in {2000000, 3000000, 3000001}}

\* the row of the agent with this id, NoRow when there is none
RowOf(table, leadId, agentId) ==
    IF getLeadById(table, leadId, agentId) = {} THEN NoRow
    ELSE table[CHOOSE k \in getLeadById(table, leadId, agentId) : TRUE]

\* lines 409-437: parse, split off lead_id, auto-tag
UpdBegin(p) ==
    /\ upd[p].pc \in {"idle", "done", "thrown"}
    /\ Len(audit_log)
         + Cardinality({q \in Procs : upd[q].pc \in {"read", "write", "audit"}})
            < MaxAudit
    /\ \E params \in ConcPayloads :
        /\ UpdateLeadSchemaOk(params)
        /\ upd' = [upd EXCEPT ![p] =
                     [IdleRun EXCEPT
                        !.pc = "read",
                        !.lead_id = params.lead_id,
                        !.updates = AutoTag([k \in DOMAIN params \ {"lead_id"} |->
                                                params[k]])]]
    /\ UNCHANGED <<orchVars, storeVars, execVars, cmd, reqInput, audit_log>>

\* line 440: const existingLead = await getLeadById(lead_id, agentId)
UpdRead(p) ==
    /\ upd[p].pc = "read"
    /\ upd' = [upd EXCEPT ![p].pc = "write",
                          ![p].existingLead = RowOf(leads, upd[p].lead_id, ConcAgent)]
    /\ UNCHANGED <<orchVars, storeVars, execVars, cmd, reqInput, audit_log>>

\* line 441: const lead = await updateLead(lead_id, agentId, updates); before
\* is the row as the UPDATE statement found it (observation only)
UpdWrite(p) ==
    /\ upd[p].pc = "write"
    /\ IF getLeadById(leads, upd[p].lead_id, ConcAgent) = {}
       THEN /\ upd' = [upd EXCEPT ![p].pc = "thrown"]
            /\ UNCHANGED leads
       ELSE /\ upd' = [upd EXCEPT ![p].pc = "audit",
                                  ![p].before = RowOf(leads, upd[p].lead_id, ConcAgent)]
            /\ leads' = updateLead(leads, upd[p].lead_id, ConcAgent, upd[p].updates)
    /\ UNCHANGED <<orchVars, pending_messages, sent, execVars, cmd, reqInput,
                   audit_log>>

\* lines 454-473: build changes from existingLead and write the audit row;
\* reading a column of a null existingLead throws
UpdAudit(p) ==
    /\ upd[p].pc = "audit"
    /\ IF upd[p].existingLead = NoRow
       THEN /\ upd' = [upd EXCEPT ![p].pc = "thrown"]
            /\ UNCHANGED audit_log
       ELSE /\ audit_log' =
                  Append(audit_log,
                         logLeadUpdated(ConcAgent, upd[p].lead_id,
                                        Changes(upd[p].existingLead, upd[p].updates)))
            /\ upd' = [upd EXCEPT ![p].pc = "done",
                                  ![p].logged = Len(audit_log) + 1]
    /\ UNCHANGED <<orchVars, storeVars, execVars, cmd, reqInput>>

\* the create_lead commands that put the lead there
ConcPool ==
    { Act("create_lead", Sarah),
      Act("create_lead",
          [first_name |-> "Sarah", email |-> "sarah@example.com",
           neighborhood |-> "SOMA", beds |-> 2, baths |-> 2,
           budget_max |-> 3000000, segments |-> <<Investor>>]) }

ConcNext ==
    \/ ExecStart({ConcAgent}, {1})
    \/ ExecStep(ConcPool, {TRUE}, MaxRows)
    \/ ExecFinish
    \/ \E p \in Procs : UpdBegin(p)
    \/ \E p \in Procs : UpdRead(p)
    \/ \E p \in Procs : UpdWrite(p)
    \/ \E p \in Procs : UpdAudit(p)

\* two interleaved runs of updateLeadAction on one lead
ConcSpec == Init /\ [][ConcNext]_vars

\* =========================================================================
\* POST /command: validateInput, orchestrate, then executeActions unless the
\* response asks for clarification
\* =========================================================================

MaxInputLength == 10000

\* a length check that already refuses MaxInputLength characters
validateInputExclusive(input) ==
    IF input.length = 0 \/ input.trimmed = 0
    THEN [valid |-> FALSE, error |-> "Input cannot be empty"]
    ELSE IF input.length >= MaxInputLength
    THEN [valid |-> FALSE, error |-> "Input too long (max 10,000 characters)"]
    ELSE [valid |-> TRUE, error |-> ""]

\* validateInput, on the input's length and its length once trimmed
validateInput(input) ==
    IF input.length = 0 \/ input.trimmed = 0
    THEN [valid |-> FALSE, error |-> "Input cannot be empty"]
    ELSE IF input.length > MaxInputLength
    THEN [valid |-> FALSE, error |-> "Input too long (max 10,000 characters)"]
    ELSE [valid |-> TRUE, error |-> ""]

Inputs ==
    { [length |-> 0, trimmed |-> 0], [length |-> 3, trimmed |-> 0],
      [length |-> 3, trimmed |-> 3],
      [length |-> MaxInputLength, trimmed |-> MaxInputLength],
      [length |-> MaxInputLength + 1, trimmed |-> MaxInputLength + 1],
      [length |-> MaxInputLength + 1, trimmed |-> MaxInputLength],
      [length |-> MaxInputLength + 1, trimmed |-> 0] }

\* a route that never stops at a clarification
NeverClarification(response) == FALSE

isClarificationNeeded(response) == response.mode = "clarification_needed"

\* the agents authMiddleware can attach to a request
PipeAgents == {"A", "B"}

\* the handler up to the call of orchestrate, and orchestrate's entry
CommandReceived ==
    /\ cmd \in {"idle", "responded", "rejected", "error"}
    /\ \E agentId \in PipeAgents, input \in Inputs :
        /\ reqInput' = input
        /\ octx' = agentId
        /\ IF ~validateInput(input).valid
           THEN cmd' = "rejected" /\ opc' = "idle"
           ELSE /\ cmd' = "orchestrating"
                /\ opc' = IF ContextValid(agentId) THEN "loop" ELSE "failed"
    /\ retryCount' = 0
    /\ llmCalls' = <<>>
    /\ oresult' = NoResponse
    /\ pc' = "idle"
    /\ ctx' = Missing
    /\ submitted' = 0
    /\ actions' = <<>>
    /\ results' = <<>>
    /\ trail' = <<>>
    /\ allSucceeded' = TRUE
    /\ UNCHANGED <<storeVars, concVars>>

\* await orchestrate(input, orchestrationContext)
CommandOrchestrate == cmd = "orchestrating" /\ OrchAttempt

\* after orchestrate: error, clarification response, or entry of
\* executeActions(orchestratorResponse.actions, {agentId: agent.id})
CommandRoute ==
    /\ cmd = "orchestrating"
    /\ opc \in {"returned", "failed"}
    /\ IF opc = "failed"
       THEN cmd' = "error" /\ UNCHANGED execVars
       ELSE IF isClarificationNeeded(oresult)
       THEN cmd' = "responded" /\ UNCHANGED execVars
       ELSE /\ cmd' = "executing"
            /\ pc' = "running"
            /\ ctx' = octx
            /\ submitted' = Len(oresult.actions)
            /\ UNCHANGED <<actions, results, trail, allSucceeded>>
    /\ UNCHANGED <<orchVars, storeVars, reqInput, concVars>>

\* the loop of executeActions on orchestratorResponse.actions
CommandExecute ==
    /\ cmd = "executing"
    /\ ExecStep({oresult.actions[Len(actions) + 1]}, BOOLEAN, MaxLeads)

CommandFinish == cmd = "executing" /\ ExecFinish

\* res.json(response), or the error handler when executeActions threw
CommandRespond ==
    /\ cmd = "executing"
    /\ pc \in {"done", "thrown"}
    /\ cmd' = IF pc = "done" THEN "responded" ELSE "error"
    /\ UNCHANGED <<orchVars, storeVars, execVars, reqInput, concVars>>

PipeNext ==
    \/ CommandReceived
    \/ CommandOrchestrate
    \/ CommandRoute
    \/ CommandExecute
    \/ CommandFinish
    \/ CommandRespond

\* the command route against an arbitrary LLM
PipeSpec == Init /\ [][PipeNext]_vars

\* orchestrate against an arbitrary LLM
OrchSpec == Init /\ [][OrchNext]_vars


\* =========================================================================
\* Properties
\* =========================================================================

Last == Len(actions)

\* ---- orchestrate (OrchSpec) ------------------------------------------------

\* C1: orchestrate calls the LLM at most twice; a second call happens only
\* after the first reply failed JSON parsing or schema validation; a returned
\* value is the parser's output for the last reply.
C1_SecondCallOnlyAfterParseFailure ==
    /\ Len(llmCalls) <= 2
    /\ Len(llmCalls) = 2 =>
          /\ llmCalls[1].kind = "reply"
          /\ ~parseOrchestratorResponse(llmCalls[1].reply).ok
    /\ opc = "returned" =>
          /\ llmCalls # <<>>
          /\ llmCalls[Len(llmCalls)].kind = "reply"
          /\ parseOrchestratorResponse(llmCalls[Len(llmCalls)].reply).ok
          /\ oresult = parseOrchestratorResponse(llmCalls[Len(llmCalls)].reply).value

\* C9: a call of orchestrate whose context has a missing or empty agentId
\* has failed, and no LLM completion call was made in it.
C9_NoCallWithoutAgent ==
    (opc # "idle" /\ octx \in {Missing, ""}) =>
        (opc = "failed" /\ llmCalls = <<>>)

C9_Witness == opc = "failed" /\ octx = "" /\ llmCalls = <<>>

\* ---- executeActions (Spec) -------------------------------------------------

\* C2: executeActions never throws; the results so far are one per action
\* gone through, in order, each carrying its action's type; and the value
\* returned has one result per submitted action.
C2_OneResultPerAction ==
    /\ pc # "thrown"
    /\ Len(results) = Len(actions)
    /\ \A k \in 1..Len(results) : results[k].actionType = actions[k].type
    /\ pc = "done" => Len(results) = submitted

C2_Witness ==
    /\ pc = "done" /\ submitted = 2 /\ Len(results) = 2
    /\ results[1].error = "Parameter validation failed"
    /\ results[2].success

\* C3: after a failed action, by validation or by a thrown handler error,
\* every later action is validated and, when its parameters are valid,
\* dispatched; the call returns only once the whole list went through.
C3_FailureSkipsNothing ==
    \A i \in 1..Len(results) :
        ~results[i].success =>
            /\ pc = "done" => Len(trail) = submitted
            /\ \A j \in (i + 1)..Len(trail) :
                  /\ trail[j].validated
                  /\ trail[j].dispatched
                        <=> validateActionParams(actions[j].type, actions[j].params).ok

C3_Witness ==
    /\ pc = "done" /\ submitted = 2 /\ Len(trail) = 2
    /\ trail[1].dispatched /\ ~results[1].success
    /\ trail[2].dispatched /\ results[2].success

\* C10: a call of executeActions whose context has no agentId fails as a
\* whole: it returns no results and validates and dispatches no action.
C10_MissingAgentFailsWholeCall ==
    (pc # "idle" /\ ctx = Missing) =>
        /\ pc # "done"
        /\ \A k \in 1..Len(trail) : ~trail[k].validated /\ ~trail[k].dispatched

\* ---- lead rules (LeadSpec) -------------------------------------------------

\* C4: no sender was ever invoked for a lead that carried the High Net Worth
\* tag at the time.
C4_NoSendToTaggedLead == \A m \in sent : ~m.protected

C4_Witness ==
    /\ pc = "done" /\ Last = 1
    /\ actions[1].type \in SendTypes
    /\ trail[1].dispatched
    /\ Tagged(leads, actions[1].params.lead_id)
    /\ sent = {}

\* C5: once a send action aimed at a tagged lead went through the executor,
\* a pending message exists for that lead.
C5_TaggedSendBecomesPending ==
    Last > 0 =>
        ((/\ actions[Last].type \in SendTypes
          /\ trail[Last].dispatched
          /\ Tagged(leads, actions[Last].params.lead_id))
            => \E m \in pending_messages : m.lead_id = actions[Last].params.lead_id)

\* C6: every stored lead with budget_max above 3,000,000 carries the tag.
C6_BudgetImpliesTag ==
    \A k \in 1..Len(leads) :
        (Has(leads[k], "budget_max") /\ leads[k].budget_max > 3000000)
            => Includes(leads[k].segments, HNW)

\* what a create or update that wrote a row was given, and the row it wrote
Supplied(p) == IF Has(p, "segments") THEN p.segments ELSE <<>>

SegmentsOf(table, leadId) ==
    IF \E k \in 1..Len(table) : table[k].id = leadId
    THEN table[CHOOSE k \in 1..Len(table) : table[k].id = leadId].segments
    ELSE <<>>

ThresholdRule(repeats) ==
    LET n == Len(actions')
        a == actions'[n]
        id == trail'[n].touched
        before == SeqCount(SegmentsOf(leads, id), HNW)
        after == SeqCount(SegmentsOf(leads', id), HNW)
    IN (/\ n = Len(actions) + 1
        /\ a.type \in {"create_lead", "update_lead"}
        /\ id # ""
        /\ Has(a.params, "budget_max")
        /\ SeqCount(Supplied(a.params), HNW) <= repeats)
        => /\ a.params.budget_max >= 3000001 => after = 1
           /\ (a.params.budget_max <= 3000000
                 /\ ~Includes(Supplied(a.params), HNW)) => after <= before

\* C7 as stated: whatever segments are supplied, a create or update with
\* budget_max 3,000,001 leaves the tag exactly once on the lead, and one with
\* budget_max 3,000,000 or lower and no tag supplied does not add it.
C7_TagExactlyOnce == [][ThresholdRule(2)]_vars

\* C7: when the supplied segments do not repeat the tag, a create or update
\* with budget_max 3,000,001 leaves the tag exactly once on the lead, and one
\* with budget_max 3,000,000 or lower and no tag supplied does not add it.
C7_TagOnceUnlessRepeated == [][ThresholdRule(1)]_vars

C7_Witness ==
    /\ Last = 1
    /\ actions[1].type = "update_lead"
    /\ trail[1].touched = "L1"
    /\ actions[1].params = [lead_id |-> "L1", budget_max |-> 3000001,
                            segments |-> <<Investor, HNW>>]
    /\ SegmentsOf(leads, "L1") = <<Investor, HNW>>

FourCategories(p) ==
    /\ Has(p, "first_name") /\ p.first_name # ""
    /\ Has(p, "email") \/ Has(p, "phone")
    /\ \/ Has(p, "property_address")
       \/ Has(p, "neighborhood") /\ Has(p, "beds") /\ Has(p, "baths")
    /\ Has(p, "budget_max") \/ Has(p, "price_range")

ValidationErrors ==
    {"Parameter validation failed", "ZodError",
     "Lead must have at least one contact method"}

\* C8: a create_lead lacking a name, a contact channel, a property descriptor
\* or a budget signal ends in a validation error and writes no row.
C8_RequiredFieldsGate ==
    Last > 0 =>
        ((actions[Last].type = "create_lead" /\ ~FourCategories(actions[Last].params))
            => /\ ~results[Last].success
               /\ results[Last].error \in ValidationErrors
               /\ trail[Last].touched = "")

\* C11: when the first completion call fails with a provider error, whatever
\* its message, orchestrate fails after that one call.
C11_ProviderErrorNeverRetried ==
    (llmCalls # <<>> /\ llmCalls[1].kind = "error") =>
        (Len(llmCalls) = 1 /\ opc = "failed")

\* C12: an action observes what the action before it wrote: after a
\* create_lead that inserted a row, a get_leads of the same agent whose filter
\* fits the row lists it, and an update_lead aimed at the row finds it.
C12_LaterActionSeesEarlierWrite ==
    \A k \in 2..Len(trail) :
        LET x == trail[k - 1].touched
            a == actions[k]
        IN (/\ ctx # Missing
            /\ actions[k - 1].type = "create_lead" /\ x # ""
            /\ trail[k].dispatched)
            => /\ (/\ a.type = "get_leads"
                   /\ Has(a.params, "segments")
                        => Overlaps(SegmentsOf(leads, x), a.params.segments))
                    => (results[k].success /\ Includes(results[k].data_leads, x))
               /\ (a.type = "update_lead" /\ a.params.lead_id = x)
                    => results[k].success

C12_Witness ==
    /\ pc = "done" /\ submitted = 2 /\ Len(trail) = 2
    /\ actions[1].type = "create_lead" /\ trail[1].touched = "L1"
    /\ actions[2].type = "get_leads"
    /\ results[2].data_leads = <<"L1">>

\* C13: an update_lead submitted without lead_id, or with a placeholder
\* lead_id, right after a get_leads that returned a non-empty list, is given
\* the id of the first lead of that list, and it is this id that validation
\* and the handler see.
C13_ChainedUpdateTakesFirstLead ==
    \A k \in 2..Len(trail) :
        LET g == trail[k].given
            prev == results[k - 1]
        IN (/\ g.type = "update_lead"
            /\ prev.actionType = "get_leads"
            /\ Len(prev.data_leads) > 0
            /\ \/ ~Has(g.params, "lead_id")
               \/ g.params.lead_id \in {"{{lead_id}}", "from_previous_action"})
            => /\ actions[k].params.lead_id = prev.data_leads[1]
               /\ trail[k].validated
               /\ trail[k].dispatched
                    <=> validateActionParams("update_lead",
                            With(g.params, "lead_id", prev.data_leads[1])).ok

C13_Witness ==
    /\ pc = "done" /\ submitted = 2 /\ Len(trail) = 2
    /\ results[1].actionType = "get_leads"
    /\ results[1].data_leads = <<"L2", "L1">>
    /\ trail[2].given.type = "update_lead"
    /\ trail[2].given.params.lead_id = "{{lead_id}}"
    /\ actions[2].params.lead_id = "L2"
    /\ trail[2].touched = "L2"
    /\ results[2].success

\* C14: the success flag executeActions returns is true exactly when every
\* returned result succeeded, and the counts of its summary are those of the
\* results: succeeded plus failed is the number of results.
C14_FlagAndSummaryMatchResults ==
    pc = "done" =>
        LET r == ExecutionResult
            ok == {k \in 1..Len(r.results) : r.results[k].success}
        IN /\ r.success <=> (\A k \in 1..Len(r.results) : r.results[k].success)
           /\ r.summary.executed = Len(r.results)
           /\ Has(r.summary, "succeeded") =>
                /\ r.summary.succeeded = Cardinality(ok)
                /\ r.summary.succeeded + r.summary.failed = Len(r.results)

C14_Witness ==
    /\ pc = "done" /\ submitted = 2
    /\ ~results[1].success /\ results[2].success
    /\ ~ExecutionResult.success
    /\ ExecutionResult.summary = [executed |-> 2, succeeded |-> 1, failed |-> 1]

\* ---- parser (OrchSpec) -----------------------------------------------------

\* the reply of the last completion call, when it is one
LastReplied == llmCalls # <<>> /\ llmCalls[Len(llmCalls)].kind = "reply"
LastBody == llmCalls[Len(llmCalls)].reply.body
ModeOf(body) == IF Has(body, "mode") THEN body.mode ELSE "<none>"

\* C15: a reply in execute mode with no actions field, an empty actions list
\* or no ui is never returned; a returned execute response has at least one
\* action and a ui whose render is table, cards, graph or notice.
C15_ExecuteNeedsActionAndUi ==
    /\ (/\ LastReplied
        /\ ModeOf(LastBody) = "execute"
        /\ \/ ~Has(LastBody, "actions")
           \/ LastBody.actions = <<>>
           \/ ~Has(LastBody, "ui"))
        => opc # "returned"
    /\ (opc = "returned" /\ oresult.mode = "execute")
        => /\ Len(oresult.actions) >= 1
           /\ Has(oresult, "ui")
           /\ Has(oresult.ui, "render")
           /\ oresult.ui.render \in {"table", "cards", "graph", "notice"}

C15_Witness ==
    /\ opc = "failed" /\ Len(llmCalls) = 2
    /\ LastReplied /\ JsonParses(llmCalls[2].reply)
    /\ ModeOf(LastBody) = "execute"
    /\ Has(LastBody, "actions") /\ LastBody.actions = <<>>

\* C16: a reply in clarification mode with an empty missing_fields list or an
\* empty follow_up_question is never returned; a returned clarification
\* response has both non-empty.
C16_ClarificationNeedsFieldsAndQuestion ==
    /\ (/\ LastReplied
        /\ ModeOf(LastBody) = "clarification_needed"
        /\ Has(LastBody, "missing_fields") /\ Has(LastBody, "follow_up_question")
        /\ (LastBody.missing_fields = <<>> \/ LastBody.follow_up_question = ""))
        => opc # "returned"
    /\ (opc = "returned" /\ oresult.mode = "clarification_needed")
        => (oresult.missing_fields # <<>> /\ oresult.follow_up_question # "")

\* C17: a reply in clarification mode with one or more actions is never
\* returned, and a returned clarification response has actions = [], also
\* when the reply had no actions field.
C17_ClarificationCarriesNoAction ==
    /\ (/\ LastReplied
        /\ ModeOf(LastBody) = "clarification_needed"
        /\ Has(LastBody, "actions") /\ LastBody.actions # <<>>)
        => opc # "returned"
    /\ (opc = "returned" /\ oresult.mode = "clarification_needed")
        => (Has(oresult, "actions") /\ oresult.actions = <<>>)

C17_Witness ==
    /\ opc = "returned" /\ LastReplied
    /\ ModeOf(LastBody) = "clarification_needed"
    /\ ~Has(LastBody, "actions")
    /\ oresult.actions = <<>>

\* ---- command route (PipeSpec) ------------------------------------------------

\* C18: a reply holding an action whose type is outside the enum is never
\* returned by orchestrate, and every action the route hands to the
\* executor's loop has a type of the enum.
C18_UnknownTypeNeverReachesExecutor ==
    /\ (/\ LastReplied
        /\ ModeOf(LastBody) = "execute"
        /\ Has(LastBody, "actions")
        /\ \E k \in 1..Len(LastBody.actions) :
              LastBody.actions[k].type \notin ActionTypes)
        => (opc # "returned" /\ cmd # "executing" /\ trail = <<>>)
    /\ \A k \in 1..Len(trail) : trail[k].given.type \in ActionTypes

C18_Witness ==
    /\ cmd = "error" /\ opc = "failed" /\ Len(llmCalls) = 2
    /\ LastReplied /\ ModeOf(LastBody) = "execute"
    /\ Has(LastBody, "actions") /\ Len(LastBody.actions) = 2
    /\ LastBody.actions[1].type = "send_sms"
    /\ LastBody.actions[2].type = "delete_lead"
    /\ trail = <<>>

\* C19: while a command is in orchestrate the stored tables do not change,
\* and a command answered with a clarification goes from orchestrate straight
\* to its response: executeActions is not entered and no action is validated
\* or dispatched.
C19_ClarificationStopsPipeline ==
    [][/\ cmd = "orchestrating" => UNCHANGED storeVars
       /\ (cmd' = "responded" /\ oresult'.mode = "clarification_needed")
            => /\ cmd = "orchestrating"
               /\ pc' = "idle"
               /\ trail' = <<>>]_vars

C19_Witness ==
    /\ cmd = "responded"
    /\ oresult.mode = "clarification_needed"
    /\ oresult.missing_fields = <<"email">>
    /\ leads # <<>>
    /\ pc = "idle" /\ trail = <<>>

\* ---- ownership (LeadSpec) ----------------------------------------------------

OwnerOf(table, leadId) ==
    IF \E k \in 1..Len(table) : table[k].id = leadId
    THEN table[CHOOSE k \in 1..Len(table) : table[k].id = leadId].owner_agent_id
    ELSE "<no row>"

OwnershipRule ==
    LET n == Len(actions')
        a == actions'[n]
        r == results'[n]
    IN (n = Len(actions) + 1 /\ ctx \in {"A", "B"})
        => /\ Len(leads') >= Len(leads)
           /\ \A k \in 1..Len(leads) :
                 leads[k].owner_agent_id # ctx => leads'[k] = leads[k]
           /\ \A k \in (Len(leads) + 1)..Len(leads') :
                 leads'[k].owner_agent_id = ctx
           /\ a.type = "get_leads" =>
                 \A j \in 1..Len(r.data_leads) :
                     OwnerOf(leads, r.data_leads[j]) = ctx
           /\ (/\ a.type = "update_lead"
               /\ Has(a.params, "lead_id")
               /\ OwnerOf(leads, a.params.lead_id) \notin {ctx, "<no row>"})
                 => ~r.success

\* C20: an action run for an agent inserts only rows owned by that agent,
\* lists only rows owned by that agent, leaves every row of another owner as
\* it was, and an update_lead aimed at another owner's row ends as a failed
\* result.
C20_ActionsStayWithinOwner == [][OwnershipRule]_vars

C20_Witness ==
    /\ Last = 1 /\ ctx = "A"
    /\ actions[1] = [type |-> "update_lead",
                     params |-> [lead_id |-> "L1", budget_max |-> 3000000,
                                 segments |-> <<Investor>>]]
    /\ trail[1].dispatched
    /\ ~results[1].success
    /\ leads = <<[id |-> "L1", owner_agent_id |-> "B",
                  segments |-> <<HNW>>, budget_max |-> 3000001]>>

\* ---- auto-tag removal (Spec) -------------------------------------------------

\* C21: when a create_lead with budget_max above 3,000,000 and no tag supplied
\* inserted a lead (so its tag was auto-added), and the next action is an
\* update_lead of that lead that succeeds with budget_max 3,000,000 or lower,
\* the stored lead no longer carries the tag.
C21_LoweredBudgetRemovesAutoTag ==
    \A k \in 2..Len(trail) :
        LET g == trail[k - 1].given
            x == trail[k - 1].touched
            a == actions[k]
        IN (/\ g.type = "create_lead" /\ x # ""
            /\ Has(g.params, "budget_max") /\ g.params.budget_max > 3000000
            /\ ~Includes(Supplied(g.params), HNW)
            /\ a.type = "update_lead"
            /\ Has(a.params, "lead_id") /\ a.params.lead_id = x
            /\ Has(a.params, "budget_max") /\ a.params.budget_max <= 3000000
            /\ results[k].success)
            => ~Tagged(leads, x)

\* ---- action types without a handler (Spec) -----------------------------------

Unimplemented == ActionTypes \ {"create_lead", "get_leads", "update_lead"}

NoHandlerRule(whenValid) ==
    /\ pc # "thrown"
    /\ pc = "done" => Len(results) = submitted
    /\ \A k \in 1..Len(trail) :
          LET a == actions[k]
              valid == validateActionParams(a.type, a.params).ok
          IN a.type \in Unimplemented =>
                /\ ~results[k].success
                /\ (whenValid => valid) =>
                      results[k].error = "action not yet implemented"
                /\ ~valid => results[k].error # "action not yet implemented"
                /\ \A j \in (k + 1)..Len(trail) : trail[j].validated

\* C22 as stated: every action of a type without a handler ends as a failed
\* result whose error says the action is not implemented, and the batch goes
\* on to the actions after it.
C22_NoHandlerAlwaysSaysNotImplemented ==
    /\ NoHandlerRule(FALSE)
    /\ \A k \in 1..Len(trail) :
          actions[k].type \in Unimplemented =>
              results[k].error = "action not yet implemented"

\* C22: an action of a type without a handler ends as a failed result and the
\* batch goes on to the actions after it; the error says the action is not
\* implemented when its parameters pass the type's validator, and is the
\* validator's error when they do not.
C22_NoHandlerFailsAndBatchGoesOn == NoHandlerRule(TRUE)

C22_Witness ==
    /\ pc = "done" /\ submitted = 2 /\ Len(trail) = 2
    /\ actions[1].type = "stage_campaign_from_content"
    /\ trail[1].dispatched
    /\ ~results[1].success
    /\ results[1].error = "action not yet implemented"
    /\ actions[2].type = "get_leads" /\ results[2].success

\* ---- validators (LeadSpec) ---------------------------------------------------

\* C23: for every action whose parameters validated, validating the validated
\* value again succeeds and returns that same value, a phone number included
\* (it stays xxx-xxx-xxxx); and an action stopped by validation wrote nothing.
C23_ValidationIdempotent ==
    \A k \in 1..Len(trail) :
        LET a == actions[k]
            v == validateActionParams(a.type, a.params)
            w == validateActionParams(a.type, v.value)
        IN /\ trail[k].validated
           /\ trail[k].dispatched <=> v.ok
           /\ v.ok => (w.ok /\ w.value = v.value)
           /\ (v.ok /\ Has(v.value, "phone")) =>
                 /\ Len(v.value.phone) = 12
                 /\ v.value.phone[4] = "-" /\ v.value.phone[8] = "-"
                 /\ DigitsOnly(v.value.phone) = DigitsOnly(a.params.phone)
           /\ ~v.ok => trail[k].touched = ""

C23_Witness ==
    /\ pc = "done" /\ Last = 1
    /\ actions[1].type = "create_lead"
    /\ Has(actions[1].params, "phone") /\ actions[1].params.phone = RawPhone
    /\ trail[1].dispatched
    /\ validateActionParams("create_lead", actions[1].params).value.phone
          = FormattedPhone
    /\ validateActionParams("create_lead",
          validateActionParams("create_lead", actions[1].params).value).value.phone
          = FormattedPhone

\* ---- audit trail (LeadSpec) --------------------------------------------------

\* C24: every run of the create_lead or update_lead handler inserted one
\* audit row, with status success when the run wrote a lead row and with
\* status failure when the run ended in an error.
C24_EveryMutationRunIsAudited ==
    \A k \in 1..Len(trail) :
        (actions[k].type \in {"create_lead", "update_lead"} /\ trail[k].dispatched)
            => /\ Len(trail[k].audit) = 1
               /\ trail[k].touched # "" => trail[k].audit[1].status = "success"
               /\ ~results[k].success => trail[k].audit[1].status = "failure"

\* ---- input precheck (PipeSpec) -------------------------------------------------

\* C25: validateInput refuses the request's input exactly when it is empty,
\* all whitespace, or longer than 10,000 characters (10,000 characters are
\* accepted), and a request whose input it refuses is rejected without a
\* call of orchestrate: no completion call is made for it.
C25_PrecheckGatesOrchestrate ==
    LET refused == \/ reqInput.length = 0
                   \/ reqInput.trimmed = 0
                   \/ reqInput.length > 10000
    IN /\ validateInput(reqInput).valid <=> ~refused
       /\ cmd # "idle" =>
            /\ cmd = "rejected" <=> refused
            /\ refused => (opc = "idle" /\ llmCalls = <<>> /\ trail = <<>>)

C25_Witness ==
    /\ cmd = "rejected"
    /\ reqInput = [length |-> 10001, trimmed |-> 10000]
    /\ opc = "idle" /\ llmCalls = <<>>
    /\ leads # <<>>

\* ---- chaining (ChainSpec) ----------------------------------------------------

\* the submitted action names no lead: lead_id is absent or empty
NoLeadId(p) == ~Has(p, "lead_id") \/ p.lead_id = ""

\* the submitted lead_id is a placeholder
PlaceholderId(p) ==
    Has(p, "lead_id") /\ p.lead_id \in {"{{lead_id}}", "from_previous_action"}

\* the conditions under which chaining may touch the k-th action
Chainable(k) ==
    /\ trail[k].given.type = "update_lead"
    /\ NoLeadId(trail[k].given.params) \/ PlaceholderId(trail[k].given.params)
    /\ k > 1
    /\ results[k - 1].actionType = "get_leads"
    /\ results[k - 1].success
    /\ Len(results[k - 1].data_leads) > 0

\* C26: the action that goes to validation differs from the submitted one
\* only for an update_lead whose lead_id is absent, empty or a placeholder and
\* whose immediately preceding result is a successful get_leads with a
\* non-empty list, and then only in lead_id; every other action goes to
\* validation as submitted, so an explicit id is kept and a get_leads further
\* back is not used.
C26_ChainingOnlyOneStepBack ==
    \A k \in 1..Len(trail) :
        /\ trail[k].validated
        /\ IF Chainable(k)
           THEN actions[k] =
                   [type |-> "update_lead",
                    params |-> With(trail[k].given.params, "lead_id",
                                    results[k - 1].data_leads[1])]
           ELSE actions[k] = trail[k].given

C26_Witness ==
    /\ pc = "done" /\ Len(trail) = 3
    /\ results[1].actionType = "get_leads" /\ results[1].data_leads = <<"L1">>
    /\ actions[2].type = "send_sms"
    /\ trail[3].given =
          [type |-> "update_lead",
           params |-> [lead_id |-> "{{lead_id}}", budget_max |-> 3000000]]
    /\ actions[3] = trail[3].given
    /\ ~results[3].success

\* ---- create_lead failures (LeadSpec) -----------------------------------------

\* C27: a create_lead whose result is a failure inserted no lead, and a
\* create_lead that inserted a lead has a successful result.
C27_FailedCreateInsertsNothing ==
    \A k \in 1..Len(trail) :
        actions[k].type = "create_lead" =>
            (results[k].success <=> trail[k].touched # "")

\* ---- other segments under auto-tagging (LeadSpec) ----------------------------

OtherSegmentsRule ==
    LET n == Len(actions')
        a == actions'[n]
        id == trail'[n].touched
        before == SegmentsOf(leads, id)
        after == SegmentsOf(leads', id)
    IN (/\ n = Len(actions) + 1
        /\ a.type = "update_lead"
        /\ id # ""
        /\ Has(a.params, "budget_max")
        /\ ~Has(a.params, "segments"))
        => \A j \in 1..Len(before) :
              before[j] # HNW => Includes(after, before[j])

\* C28: an update_lead with budget_max and without a segments field that
\* updated a lead left on it every segment it had before, other than
\* 'High Net Worth'.
C28_UpdateKeepsOtherSegments == [][OtherSegmentsRule]_vars

UnresolvedIdRule ==
    LET n == Len(actions')
        a == actions'[n]
    IN (/\ n = Len(actions) + 1
        /\ a.type = "update_lead"
        /\ NoLeadId(a.params) \/ PlaceholderId(a.params))
        => /\ ~trail'[n].dispatched
           /\ trail'[n].touched = ""
           /\ ~results'[n].success
           /\ leads' = leads

\* C29: an update_lead whose lead_id is still absent, empty or a placeholder
\* once the chaining step is over never enters its handler: it ends as a
\* failed result and the leads table stays as it was.
C29_UnresolvedIdNeverReachesStore == [][UnresolvedIdRule]_vars

C29_Witness ==
    /\ pc = "done" /\ Len(trail) = 3
    /\ leads # <<>>
    /\ results[2].actionType = "get_leads"
    /\ results[2].success /\ results[2].data_leads = <<>>
    /\ trail[3].given =
          [type |-> "update_lead",
           params |-> [lead_id |-> "from_previous_action", budget_max |-> 3000000]]
    /\ actions[3] = trail[3].given
    /\ ~trail[3].dispatched
    /\ results[3].error = "Parameter validation failed"

\* ---- concurrent updates (ConcSpec) -------------------------------------------

\* C30: for every finished run of update_lead, the old value its audit row
\* gives for each changed field is the value the field had in the stored lead
\* immediately before that run's own update was applied.
C30_AuditOldValueIsValueBeforeUpdate ==
    \A p \in Procs :
        upd[p].pc = "done" =>
            LET changes == audit_log[upd[p].logged].details.changes
            IN \A k \in DOMAIN changes :
                  changes[k].old = Column(upd[p].before, k)

====
